---- MODULE Spec2Model ----
(***************************************************************************)
(* Lifecycle of the Lassie daemon singleton (src/src/lib.rs).              *)
(*                                                                         *)
(* Caller threads run Daemon::start and the Drop of a Daemon handle; each  *)
(* successful start spawns one handler thread that runs RunDaemon.  The Go *)
(* library behind the extern "C" block is the environment: what its        *)
(* functions return is chosen nondeterministically.                        *)
(***************************************************************************)
EXTENDS Integers, Sequences, FiniteSets, TLC

\* ---------------------------------------------------------------- bounds
\* caller threads that issue Daemon::start / drop a handle
NumThreads == 2
\* InitDaemon calls in one behaviour (each start that reaches InitDaemon)
MaxInitCalls == 2

Threads == 1..NumThreads
Insts == 1..MaxInitCalls

\* ---------------------------------------------------------------- values
\* Option<T>: None is <<>>, Some(x) is <<x>>
None == <<>>
Some(x) == <<x>>
IsSome(o) == Len(o) > 0
Unwrap(o) == o[1]

\* the terminator byte CString::new rejects
NUL == 0
\* U+FFFD, what to_string_lossy puts for a byte that is not UTF-8
REPLACEMENT_CHARACTER == 65533

\* Bytes of the inputs: NUL, 'A', 'E' and 0xFF (a byte no UTF-8 text holds).
\* str::from_utf8 over this alphabet accepts exactly the texts without 0xFF.
IsValidUtf8(bytes) == \A k \in 1..Len(bytes) : bytes[k] < 128

\* CString::new(bytes): Err when an interior NUL byte is present
HasNulNever(bytes) == FALSE

HasNul(bytes) == \E k \in 1..Len(bytes) : bytes[k] = NUL

\* String::from_utf8_lossy, byte by byte (each ill-formed byte -> U+FFFD)
ToStringLossy(bytes) ==
    [k \in 1..Len(bytes) |->
        IF bytes[k] < 128 THEN bytes[k] ELSE REPLACEMENT_CHARACTER]

\* from_c_string: NULL -> None, otherwise the lossily decoded text
from_c_string(str) ==
    IF ~IsSome(str) THEN None ELSE Some(ToStringLossy(Unwrap(str)))

\* A Duration is its as_nanos() value (u128), little-endian in limbs of
\* LimbBits bits; the low I64Limbs limbs hold 63 bits, an i64's magnitude.
LimbBits == 21
I64Limbs == 3
LimbBase == 2 ^ LimbBits
ZeroI64 == [k \in 1..I64Limbs |-> 0]

\* from.as_nanos() as i64 would keep the low bits of any count
FitsI64Wrapping(nanos) == TRUE

\* i64::try_from(from.as_nanos()): Ok(n) iff n <= i64::MAX = 2^63 - 1
FitsI64(nanos) == \A k \in (I64Limbs + 1)..Len(nanos) : nanos[k] = 0

\* Result<T, StartError>
Ok(v) == [ok |-> TRUE, err |-> "", val |-> v]
Err(e, v) == [ok |-> FALSE, err |-> e, val |-> v]

try_convert_duration_to_go_type(from) ==
    IF FitsI64(from)
        THEN Ok(SubSeq(from, 1, I64Limbs))
        ELSE Err("DurationIsTooLong", from)

\* ---------------------------------------------------------------- config
DefaultConfig ==
    [temp_dir |-> None, port |-> 0, max_blocks |-> None,
     provider_timeout |-> None, global_timeout |-> None,
     access_token |-> None]

ShortDuration == <<5, 0, 0, 0, 0>>
\* 2^63 - 1 ns, the longest Duration an i64 holds
MaxGoDuration == <<LimbBase - 1, LimbBase - 1, LimbBase - 1, 0, 0>>
\* 2^63 ns
TooLongDuration == <<0, 0, 0, 1, 0>>

FullConfig ==
    [temp_dir |-> Some(<<65>>), port |-> 1, max_blocks |-> Some(3),
     provider_timeout |-> Some(ShortDuration),
     global_timeout |-> Some(MaxGoDuration),
     access_token |-> Some(<<65>>)]

\* the configurations the callers pass to Daemon::start
Configs ==
    { DefaultConfig,
      FullConfig,
      [DefaultConfig EXCEPT !.temp_dir = Some(<<255>>)],
      [DefaultConfig EXCEPT !.temp_dir = Some(<<65, 0>>)],
      [DefaultConfig EXCEPT !.global_timeout = Some(TooLongDuration)],
      [DefaultConfig EXCEPT !.provider_timeout = Some(TooLongDuration)],
      [DefaultConfig EXCEPT !.access_token = Some(<<0>>)] }

\* the durations and the configurations the translation is checked on: every
\* field absent, at its least, in range, at the edge of its range, invalid
Durations ==
    { <<0, 0, 0, 0, 0>>, ShortDuration, MaxGoDuration, TooLongDuration,
      <<LimbBase - 1, LimbBase - 1, LimbBase - 1, 1, 0>>, <<5, 0, 0, 0, 1>> }

TranslationInputs ==
    [temp_dir : {None, Some(<<65>>), Some(<<255>>), Some(<<65, 0>>),
                 Some(<<255, 0>>)},
     port : {0, 1, 65535},
     max_blocks : {None, Some(0), Some(1), Some(3)},
     provider_timeout : {None} \cup {Some(d) : d \in Durations},
     global_timeout : {None} \cup {Some(d) : d \in Durations},
     access_token : {None, Some(<<65>>), Some(<<0>>)}]

\* Option::unwrap_or
unwrap_or(o, default) == IF IsSome(o) THEN Unwrap(o) ELSE default

\* lines 213-222: let go_config = GoDaemonConfig { ... }
GoDaemonConfigSwapped(temp_dir, port, global_timeout, provider_timeout, max_blocks, access_token) ==
    [temp_dir |-> temp_dir,
     port |-> port,
     global_timeout |-> provider_timeout,
     provider_timeout |-> global_timeout,
     max_blocks |-> max_blocks,
     access_token |-> access_token]

GoDaemonConfig(temp_dir, port, global_timeout, provider_timeout, max_blocks, access_token) ==
    [temp_dir |-> temp_dir,
     port |-> port,
     global_timeout |-> global_timeout,
     provider_timeout |-> provider_timeout,
     max_blocks |-> max_blocks,
     access_token |-> access_token]

\* Daemon::start, lines 172-222: DaemonConfig -> GoDaemonConfig or the first
\* StartError, in the order the code checks the fields.
TranslateProviderFirst(config) ==
    LET dir == IF IsSome(config.temp_dir) THEN Unwrap(config.temp_dir) ELSE <<>>
        gt == IF IsSome(config.global_timeout)
                THEN try_convert_duration_to_go_type(Unwrap(config.global_timeout))
                ELSE Ok(ZeroI64)
        pt == IF IsSome(config.provider_timeout)
                THEN try_convert_duration_to_go_type(Unwrap(config.provider_timeout))
                ELSE Ok(ZeroI64)
        tok == IF IsSome(config.access_token) THEN Unwrap(config.access_token) ELSE <<>>
    IN  IF IsSome(config.temp_dir) /\ ~IsValidUtf8(dir)
            THEN Err("PathIsNotValidUtf8", dir)
        ELSE IF HasNul(dir) THEN Err("PathContainsNullByte", dir)
        ELSE IF ~pt.ok THEN pt
        ELSE IF ~gt.ok THEN gt
        ELSE IF HasNul(tok) THEN Err("AccessTokenContainsNullByte", tok)
        ELSE Ok(GoDaemonConfig(dir, config.port, gt.val, pt.val,
                               unwrap_or(config.max_blocks, 0), tok))

Translate(config) ==
    LET dir == IF IsSome(config.temp_dir) THEN Unwrap(config.temp_dir) ELSE <<>>
        gt == IF IsSome(config.global_timeout)
                THEN try_convert_duration_to_go_type(Unwrap(config.global_timeout))
                ELSE Ok(ZeroI64)
        pt == IF IsSome(config.provider_timeout)
                THEN try_convert_duration_to_go_type(Unwrap(config.provider_timeout))
                ELSE Ok(ZeroI64)
        tok == IF IsSome(config.access_token) THEN Unwrap(config.access_token) ELSE <<>>
    IN  IF IsSome(config.temp_dir) /\ ~IsValidUtf8(dir)
            THEN Err("PathIsNotValidUtf8", dir)
        ELSE IF HasNul(dir) THEN Err("PathContainsNullByte", dir)
        ELSE IF ~gt.ok THEN gt
        ELSE IF ~pt.ok THEN pt
        ELSE IF HasNul(tok) THEN Err("AccessTokenContainsNullByte", tok)
        ELSE Ok(GoDaemonConfig(dir, config.port, gt.val, pt.val,
                               unwrap_or(config.max_blocks, 0), tok))


\* ------------------------------------------------------------ the Go side
\* What the extern "C" functions may return; the library is the environment.
GoPorts == {1, 2}
GoMessages == {<<69>>, <<69, 255>>}

\* InitDaemonResult { port, error }
InitOutcomes ==
    {[port |-> p, error |-> None] : p \in GoPorts}
        \cup {[port |-> 0, error |-> Some(m)] : m \in GoMessages}

\* LassieResult { error } of RunDaemon and of StopDaemon
ResultOutcomes == {None, Some(<<69>>)}

\* ------------------------------------------------------------------ state
VARIABLES
    pc,       \* where each caller thread is in Daemon::start / Daemon::drop
    frame,    \* the locals of the call each caller thread is in
    ret,      \* what each caller thread's last call returned
    DAEMON,   \* static mut DAEMON: Mutex<Option<GoDaemon>>
    nInit,    \* InitDaemon calls made so far
    golib,    \* per InitDaemon call: what the Go side received and was asked
    handler,  \* per InitDaemon call: the handler thread std::thread::spawn made
    handle,   \* per InitDaemon call: the Daemon value start returned
    res,      \* the result records Rust holds: per start, per drop, per handler
    gate      \* what crossed the boundary: records received, records released

vars == <<pc, frame, ret, DAEMON, nInit, golib, handler, handle, res, gate>>

StartPcs == {"s_lock", "s_check", "s_init", "s_result", "s_spawn", "s_store", "s_return"}
DropPcs == {"d_lock", "d_stop", "d_result", "d_take", "d_join"}

GoDefault == Translate(DefaultConfig).val

\* ran_out and contends are history, not locals: whether RunDaemon had
\* already returned when the handle was dropped, and the instance whose drop
\* held the lock when start was called (0: none)
EmptyFrame ==
    [config |-> DefaultConfig, go |-> GoDefault, result |-> 0, port |-> 0,
     handler_thread |-> None, self |-> 0, ran_out |-> FALSE, contends |-> 0]

NoRet == [kind |-> "none", err |-> "", val |-> <<>>]
RetOk(i) == [kind |-> "Ok", err |-> "", val |-> <<i>>]
RetErr(e) == [kind |-> "Err", err |-> e.err, val |-> e.val]
RetDropped == [kind |-> "Dropped", err |-> "", val |-> <<>>]
RetPanic(why, msg) == [kind |-> "Panic", err |-> why, val |-> msg]

\* a result record while Rust holds it; NoRecord before and after
NoRecord == [st |-> "none", port |-> 0, error |-> None]
Received(port, error) == [st |-> "held", port |-> port, error |-> error]

RecordKinds == {"init", "run", "stop"}

NoGo == [init |-> "none", runs |-> 0, stops |-> 0]
NoHandle == [st |-> "none", port |-> 0, access_token |-> None]

Init ==
    /\ pc = [t \in Threads |-> "idle"]
    /\ frame = [t \in Threads |-> EmptyFrame]
    /\ ret = [t \in Threads |-> NoRet]
    /\ DAEMON = [holder |-> 0, poisoned |-> FALSE, value |-> None]
    /\ nInit = 0
    /\ golib = [i \in Insts |-> NoGo]
    /\ handler = [i \in Insts |-> "none"]
    /\ handle = [i \in Insts |-> NoHandle]
    /\ res = [init |-> [t \in Threads |-> NoRecord],
              stop |-> [t \in Threads |-> NoRecord],
              run |-> [i \in Insts |-> NoRecord]]
    /\ gate = [got |-> [k \in RecordKinds |-> 0],
               freed |-> [k \in RecordKinds |-> 0],
               late |-> FALSE]

\* ------------------------------------------------------------ gateway
\* a boundary call returned a record of kind k
Got(g, k) == [g EXCEPT !.got[k] = @ + 1]

\* impl Drop for InitDaemonResult / LassieResult: DropDaemonInitResult(self),
\* DropResult(self); the Go side frees the record of kind k
Leaked(g, k) == g

Freed(g, k) == [g EXCEPT !.freed[k] = @ + 1]

\* InitDaemonResult::error / LassieResult::error read the error field of r;
\* a read of a record that is no longer held is a read after the release
ReadError(g, r) == [g EXCEPT !.late = @ \/ (r.st # "held")]

\* the daemon the argument-less RunDaemon / StopDaemon act on: the one the
\* latest successful InitDaemon created
GoCurrent ==
    LET oks == {i \in Insts : golib[i].init = "ok"}
    IN  IF oks = {} THEN 0 ELSE CHOOSE i \in oks : \A j \in oks : j <= i

GoCount(field) ==
    IF GoCurrent = 0 THEN golib
    ELSE IF field = "runs" THEN [golib EXCEPT ![GoCurrent].runs = @ + 1]
    ELSE [golib EXCEPT ![GoCurrent].stops = @ + 1]

\* ------------------------------------------------------------ the mutex
\* get_global_daemon: DAEMON.lock() blocks until the mutex is free.  On a
\* poisoned mutex both callers let go of the guard at once (map_err in start,
\* expect in drop), so the mutex is taken only when it is not poisoned.
get_global_daemon_no_exclusion(t) ==
    DAEMON' = [DAEMON EXCEPT !.holder = IF DAEMON.poisoned THEN 0 ELSE t]

get_global_daemon(t) ==
    /\ DAEMON.holder = 0
    /\ DAEMON' = [DAEMON EXCEPT !.holder = IF DAEMON.poisoned THEN 0 ELSE t]

\* LockResult: Err(PoisonError) when a thread panicked holding the guard
PoisonIgnored(d) == FALSE

is_poisoned(d) == d.poisoned

\* MutexGuard dropped at the end of a call
UnlockNever(d) == d

Unlock(d) == [d EXCEPT !.holder = 0]
\* MutexGuard dropped while the thread unwinds from a panic
UnlockPanicking(d) == [d EXCEPT !.holder = 0, !.poisoned = TRUE]

\* maybe_daemon.is_some()
is_some_never(d) == FALSE

is_some(d) == IsSome(d.value)


\* ------------------------------------------------------------ Daemon::start
\* A call ends: the locals go, the thread is back with its caller.
Leave(t, r) ==
    /\ pc' = [pc EXCEPT ![t] = "idle"]
    /\ frame' = [frame EXCEPT ![t] = EmptyFrame]
    /\ ret' = [ret EXCEPT ![t] = r]

\* starts under way; each may still call InitDaemon
StartsInFlight == Cardinality({t \in Threads : pc[t] \in StartPcs})

\* the instance whose drop holds the lock, 0 if no drop does
BeingTornDown ==
    LET held == {u \in Threads : pc[u] \in DropPcs \ {"d_lock"}}
    IN  IF held = {} THEN 0 ELSE frame[CHOOSE u \in held : TRUE].self

\* a thread calls Daemon::start(config)
CallStart(t, config) ==
    /\ pc[t] = "idle"
    /\ nInit + StartsInFlight < MaxInitCalls
    /\ pc' = [pc EXCEPT ![t] = "s_lock"]
    /\ frame' = [frame EXCEPT ![t] = [EmptyFrame EXCEPT
            !.config = config, !.contends = BeingTornDown]]
    /\ ret' = [ret EXCEPT ![t] = NoRet]
    /\ UNCHANGED <<DAEMON, nInit, golib, handler, handle, res, gate>>

\* line 165: get_global_daemon().map_err(|_| StartError::MutexPoisoned)?
StartLock(t) ==
    /\ pc[t] = "s_lock"
    /\ get_global_daemon(t)
    /\ IF is_poisoned(DAEMON)
         THEN Leave(t, RetErr(Err("MutexPoisoned", <<>>)))
         ELSE /\ pc' = [pc EXCEPT ![t] = "s_check"]
              /\ UNCHANGED <<frame, ret>>
    /\ UNCHANGED <<nInit, golib, handler, handle, res, gate>>

\* lines 166-222: the occupied-slot check, then the translation of the config
StartCheck(t) ==
    /\ pc[t] = "s_check"
    /\ LET go == Translate(frame[t].config)
       IN  IF is_some(DAEMON)
             THEN /\ Leave(t, RetErr(Err("OnlyOneInstanceAllowed", <<>>)))
                  /\ DAEMON' = Unlock(DAEMON)
           ELSE IF ~go.ok
             THEN /\ Leave(t, RetErr(go))
                  /\ DAEMON' = Unlock(DAEMON)
           ELSE /\ pc' = [pc EXCEPT ![t] = "s_init"]
                /\ frame' = [frame EXCEPT ![t].go = go.val]
                /\ UNCHANGED <<ret, DAEMON>>
    /\ UNCHANGED <<nInit, golib, handler, handle, res, gate>>

\* line 227: let result = unsafe { InitDaemon(&go_config) }
StartInit(t) ==
    /\ pc[t] = "s_init"
    /\ \E out \in InitOutcomes :
         /\ nInit' = nInit + 1
         /\ golib' = [golib EXCEPT ![nInit + 1] =
                [NoGo EXCEPT !.init = IF IsSome(out.error) THEN "err" ELSE "ok"]]
         /\ res' = [res EXCEPT !.init[t] = Received(out.port, out.error)]
         /\ gate' = Got(gate, "init")
         /\ frame' = [frame EXCEPT ![t].result = nInit + 1]
    /\ pc' = [pc EXCEPT ![t] = "s_result"]
    /\ UNCHANGED <<ret, DAEMON, handler, handle>>

\* what start gives back for an InitDaemon error message
LassieErrorGeneric(msg) == Err("Lassie", <<>>)

LassieError(msg) == Err("Lassie", msg)

\* lines 230-235: result.error() decides; on an error `result` is dropped and
\* the guard after it
StartResultUnchecked(t) ==
    /\ pc[t] = "s_result"
    /\ pc' = [pc EXCEPT ![t] = "s_spawn"]
    /\ frame' = [frame EXCEPT ![t].port = res.init[t].port]
    /\ UNCHANGED <<ret, DAEMON, res, gate, nInit, golib, handler, handle>>

StartResult(t) ==
    /\ pc[t] = "s_result"
    /\ LET r == res.init[t]
           msg == from_c_string(r.error)
       IN  IF IsSome(msg)
             THEN /\ Leave(t, RetErr(LassieError(Unwrap(msg))))
                  /\ res' = [res EXCEPT !.init[t] = NoRecord]
                  /\ gate' = Freed(ReadError(gate, r), "init")
                  /\ DAEMON' = Unlock(DAEMON)
             ELSE /\ pc' = [pc EXCEPT ![t] = "s_spawn"]
                  /\ frame' = [frame EXCEPT ![t].port = r.port]
                  /\ gate' = ReadError(gate, r)
                  /\ UNCHANGED <<ret, DAEMON, res>>
    /\ UNCHANGED <<nInit, golib, handler, handle>>

\* line 237: std::thread::spawn(|| ...)
StartSpawn(t) ==
    /\ pc[t] = "s_spawn"
    /\ handler' = [handler EXCEPT ![frame[t].result] = "spawned"]
    /\ frame' = [frame EXCEPT ![t].handler_thread = Some(frame[t].result)]
    /\ pc' = [pc EXCEPT ![t] = "s_store"]
    /\ UNCHANGED <<ret, DAEMON, nInit, golib, handle, res, gate>>

\* line 249: *maybe_daemon = Some(GoDaemon { handler_thread })
StartStoreForgot(t) ==
    /\ pc[t] = "s_store"
    /\ frame' = [frame EXCEPT ![t].handler_thread = None]
    /\ pc' = [pc EXCEPT ![t] = "s_return"]
    /\ UNCHANGED <<ret, DAEMON, nInit, golib, handler, handle, res, gate>>

StartStore(t) ==
    /\ pc[t] = "s_store"
    /\ DAEMON' = [DAEMON EXCEPT !.value = frame[t].handler_thread]
    /\ frame' = [frame EXCEPT ![t].handler_thread = None]
    /\ pc' = [pc EXCEPT ![t] = "s_return"]
    /\ UNCHANGED <<ret, nInit, golib, handler, handle, res, gate>>

\* lines 252-255: Ok(Daemon { port, access_token: config.access_token })
DaemonConfiguredPort(port, config) ==
    [st |-> "live", port |-> config.port, access_token |-> config.access_token]

Daemon(port, config) ==
    [st |-> "live", port |-> port, access_token |-> config.access_token]

\* lines 252-256: Ok(Daemon { port, access_token }); `result` is dropped, then
\* the guard
StartReturn(t) ==
    /\ pc[t] = "s_return"
    /\ handle' = [handle EXCEPT ![frame[t].result] =
            Daemon(frame[t].port, frame[t].config)]
    /\ res' = [res EXCEPT !.init[t] = NoRecord]
    /\ gate' = Freed(gate, "init")
    /\ DAEMON' = Unlock(DAEMON)
    /\ Leave(t, RetOk(frame[t].result))
    /\ UNCHANGED <<nInit, golib, handler>>

\* ------------------------------------------------------- the handler thread
\* line 241: let result = unsafe { RunDaemon() }, the call begins
BgRunSkipped(i) ==
    /\ handler[i] = "spawned"
    /\ handler' = [handler EXCEPT ![i] = "running"]
    /\ UNCHANGED <<pc, frame, ret, DAEMON, nInit, golib, handle, res, gate>>

BgRun(i) ==
    /\ handler[i] = "spawned"
    /\ handler' = [handler EXCEPT ![i] = "running"]
    /\ golib' = GoCount("runs")
    /\ UNCHANGED <<pc, frame, ret, DAEMON, nInit, handle, res, gate>>

\* RunDaemon returns, when the Go side decides to
BgReturn(i) ==
    /\ handler[i] = "running"
    /\ \E error \in ResultOutcomes :
         res' = [res EXCEPT !.run[i] = Received(0, error)]
    /\ gate' = Got(gate, "run")
    /\ handler' = [handler EXCEPT ![i] = "returned"]
    /\ UNCHANGED <<pc, frame, ret, DAEMON, nInit, golib, handle>>

\* lines 242-248: result.error() is logged, nothing else; the closure ends,
\* `result` is dropped, the thread exits
BgExit(i) ==
    /\ handler[i] = "returned"
    /\ res' = [res EXCEPT !.run[i] = NoRecord]
    /\ gate' = Freed(ReadError(gate, res.run[i]), "run")
    /\ handler' = [handler EXCEPT ![i] = "exited"]
    /\ UNCHANGED <<pc, frame, ret, DAEMON, nInit, golib, handle>>


\* ------------------------------------------------------- impl Drop for Daemon
\* the value is gone once its drop has run, also when the drop panicked
Gone(i) == [handle EXCEPT ![i] = [NoHandle EXCEPT !.st = "dead"]]

\* a thread that owns the handle drops it
CallDrop(t, i) ==
    /\ pc[t] = "idle"
    /\ handle[i].st = "live"
    /\ handle' = [handle EXCEPT ![i].st = "dropping"]
    /\ pc' = [pc EXCEPT ![t] = "d_lock"]
    /\ frame' = [frame EXCEPT ![t] = [EmptyFrame EXCEPT
            !.self = i, !.ran_out = handler[i] \in {"returned", "exited"}]]
    /\ ret' = [ret EXCEPT ![t] = NoRet]
    /\ UNCHANGED <<DAEMON, nInit, golib, handler, res, gate>>

\* line 272: get_global_daemon().expect("global daemon mutex was poisoned")
DropLock(t) ==
    /\ pc[t] = "d_lock"
    /\ get_global_daemon(t)
    /\ IF is_poisoned(DAEMON)
         THEN /\ Leave(t, RetPanic("global daemon mutex was poisoned", <<>>))
              /\ handle' = Gone(frame[t].self)
         ELSE /\ pc' = [pc EXCEPT ![t] = "d_stop"]
              /\ UNCHANGED <<frame, ret, handle>>
    /\ UNCHANGED <<nInit, golib, handler, res, gate>>

\* lines 273-281: assert!(maybe_daemon.is_some()), then StopDaemon()
DropStop(t) ==
    /\ pc[t] = "d_stop"
    /\ IF ~is_some(DAEMON)
         THEN /\ Leave(t, RetPanic("Daemon.drop() was called when no GoDaemon was running", <<>>))
              /\ DAEMON' = UnlockPanicking(DAEMON)
              /\ handle' = Gone(frame[t].self)
              /\ UNCHANGED <<golib, res, gate>>
         ELSE /\ \E error \in ResultOutcomes :
                   res' = [res EXCEPT !.stop[t] = Received(0, error)]
              /\ gate' = Got(gate, "stop")
              /\ golib' = GoCount("stops")
              /\ pc' = [pc EXCEPT ![t] = "d_result"]
              /\ UNCHANGED <<frame, ret, DAEMON, handle>>
    /\ UNCHANGED <<nInit, handler>>

\* lines 282-284: panic!("Cannot stop Lassie Daemon: {msg}"); unwinding drops
\* `result` and then the guard, which poisons the mutex
DropResult(t) ==
    /\ pc[t] = "d_result"
    /\ LET r == res.stop[t]
           msg == from_c_string(r.error)
       IN  IF IsSome(msg)
             THEN /\ Leave(t, RetPanic("Cannot stop Lassie Daemon", Unwrap(msg)))
                  /\ res' = [res EXCEPT !.stop[t] = NoRecord]
                  /\ gate' = Freed(ReadError(gate, r), "stop")
                  /\ DAEMON' = UnlockPanicking(DAEMON)
                  /\ handle' = Gone(frame[t].self)
             ELSE /\ pc' = [pc EXCEPT ![t] = "d_take"]
                  /\ gate' = ReadError(gate, r)
                  /\ UNCHANGED <<frame, ret, DAEMON, handle, res>>
    /\ UNCHANGED <<nInit, golib, handler>>

\* line 288: let GoDaemon { handler_thread } = maybe_daemon.take().unwrap()
DropTakeNoClear(t) ==
    /\ pc[t] = "d_take"
    /\ frame' = [frame EXCEPT ![t].handler_thread = DAEMON.value]
    /\ pc' = [pc EXCEPT ![t] = "d_join"]
    /\ UNCHANGED <<ret, DAEMON, nInit, golib, handler, handle, res, gate>>

DropTake(t) ==
    /\ pc[t] = "d_take"
    /\ frame' = [frame EXCEPT ![t].handler_thread = DAEMON.value]
    /\ DAEMON' = [DAEMON EXCEPT !.value = None]
    /\ pc' = [pc EXCEPT ![t] = "d_join"]
    /\ UNCHANGED <<ret, nInit, golib, handler, handle, res, gate>>

\* lines 289-290: handler_thread.join() returns once the thread has exited;
\* then `result` and the guard are dropped
DropDetach(t) ==
    /\ pc[t] = "d_join"
    /\ res' = [res EXCEPT !.stop[t] = NoRecord]
    /\ gate' = [gate EXCEPT !.freed["stop"] = @ + 1]
    /\ DAEMON' = [DAEMON EXCEPT !.holder = 0]
    /\ handle' = [handle EXCEPT ![frame[t].self] = [NoHandle EXCEPT !.st = "dead"]]
    /\ pc' = [pc EXCEPT ![t] = "idle"]
    /\ frame' = [frame EXCEPT ![t] = EmptyFrame]
    /\ ret' = [ret EXCEPT ![t] = RetDropped]
    /\ UNCHANGED <<nInit, golib, handler>>

DropJoin(t) ==
    /\ pc[t] = "d_join"
    /\ handler[Unwrap(frame[t].handler_thread)] = "exited"
    /\ handler' = [handler EXCEPT ![Unwrap(frame[t].handler_thread)] = "joined"]
    /\ res' = [res EXCEPT !.stop[t] = NoRecord]
    /\ gate' = Freed(gate, "stop")
    /\ DAEMON' = Unlock(DAEMON)
    /\ handle' = Gone(frame[t].self)
    /\ Leave(t, RetDropped)
    /\ UNCHANGED <<nInit, golib>>

\* ---------------------------------------------------------- specification
Next ==
    \/ \E t \in Threads, config \in Configs : CallStart(t, config)
    \/ \E t \in Threads : StartLock(t)
    \/ \E t \in Threads : StartCheck(t)
    \/ \E t \in Threads : StartInit(t)
    \/ \E t \in Threads : StartResult(t)
    \/ \E t \in Threads : StartSpawn(t)
    \/ \E t \in Threads : StartStore(t)
    \/ \E t \in Threads : StartReturn(t)
    \/ \E t \in Threads, i \in Insts : CallDrop(t, i)
    \/ \E t \in Threads : DropLock(t)
    \/ \E t \in Threads : DropStop(t)
    \/ \E t \in Threads : DropResult(t)
    \/ \E t \in Threads : DropTake(t)
    \/ \E t \in Threads : DropJoin(t)
    \/ \E i \in Insts : BgRun(i)
    \/ \E i \in Insts : BgReturn(i)
    \/ \E i \in Insts : BgExit(i)

Spec == Init /\ [][Next]_vars

\* A thread inside start or drop goes on unless it waits: for the lock, or,
\* in join(), for the handler thread.
InCall(t) ==
    \/ StartCheck(t) \/ StartInit(t) \/ StartResult(t) \/ StartSpawn(t)
    \/ StartStore(t) \/ StartReturn(t)
    \/ DropStop(t) \/ DropResult(t) \/ DropTake(t) \/ DropJoin(t)

\* Fair scheduling: every thread that can go on does, a thread waiting for
\* the lock gets it if it is free again and again, the spawned thread runs,
\* and the Go side returns from RunDaemon once StopDaemon has been called.
Fairness ==
    /\ \A t \in Threads :
         /\ WF_vars(InCall(t))
         /\ SF_vars(StartLock(t))
         /\ SF_vars(DropLock(t))
    /\ \A i \in Insts :
         /\ WF_vars(BgRun(i) \/ BgExit(i))
         /\ WF_vars(golib[i].stops > 0 /\ BgReturn(i))

FairSpec == Spec /\ Fairness

\* The translation on its own: a start called with any configuration of
\* TranslationInputs, run up to the InitDaemon call or the error it returns.
InitT ==
    /\ \E t \in Threads, config \in TranslationInputs :
         /\ pc = [u \in Threads |-> IF u = t THEN "s_lock" ELSE "idle"]
         /\ frame = [u \in Threads |->
                IF u = t THEN [EmptyFrame EXCEPT !.config = config]
                ELSE EmptyFrame]
    /\ ret = [t \in Threads |-> NoRet]
    /\ DAEMON = [holder |-> 0, poisoned |-> FALSE, value |-> None]
    /\ nInit = 0
    /\ golib = [i \in Insts |-> NoGo]
    /\ handler = [i \in Insts |-> "none"]
    /\ handle = [i \in Insts |-> NoHandle]
    /\ res = [init |-> [t \in Threads |-> NoRecord],
              stop |-> [t \in Threads |-> NoRecord],
              run |-> [i \in Insts |-> NoRecord]]
    /\ gate = [got |-> [k \in RecordKinds |-> 0],
               freed |-> [k \in RecordKinds |-> 0],
               late |-> FALSE]

NextT ==
    \/ \E t \in Threads : StartLock(t)
    \/ \E t \in Threads : StartCheck(t)

SpecT == InitT /\ [][NextT]_vars

\* The checks of start on their own: a start called with any configuration
\* of TranslationInputs in each of the three conditions it can find the
\* global daemon in: never used; an instance running, started with the
\* default configuration; poisoned by a drop whose StopDaemon failed.
Worlds ==
    LET fresh ==
            [DAEMON |-> [holder |-> 0, poisoned |-> FALSE, value |-> None],
             nInit |-> 0,
             golib |-> [i \in Insts |-> NoGo],
             handler |-> [i \in Insts |-> "none"],
             handle |-> [i \in Insts |-> NoHandle],
             gate |-> [got |-> [k \in RecordKinds |-> 0],
                       freed |-> [k \in RecordKinds |-> 0],
                       late |-> FALSE]]
        running ==
            [fresh EXCEPT
                !.DAEMON.value = Some(1),
                !.nInit = 1,
                !.golib[1] = [init |-> "ok", runs |-> 1, stops |-> 0],
                !.handler[1] = "running",
                !.handle[1] = Daemon(1, DefaultConfig),
                !.gate.got["init"] = 1,
                !.gate.freed["init"] = 1]
        poisoned ==
            [running EXCEPT
                !.DAEMON.poisoned = TRUE,
                !.golib[1].stops = 1,
                !.handle[1] = [NoHandle EXCEPT !.st = "dead"],
                !.gate.got["stop"] = 1,
                !.gate.freed["stop"] = 1]
    IN  {fresh, running, poisoned}

InitO ==
    /\ \E t \in Threads, config \in TranslationInputs :
         /\ pc = [u \in Threads |-> IF u = t THEN "s_lock" ELSE "idle"]
         /\ frame = [u \in Threads |->
                IF u = t THEN [EmptyFrame EXCEPT !.config = config]
                ELSE EmptyFrame]
    /\ ret = [t \in Threads |-> NoRet]
    /\ \E w \in Worlds :
         /\ DAEMON = w.DAEMON
         /\ nInit = w.nInit
         /\ golib = w.golib
         /\ handler = w.handler
         /\ handle = w.handle
         /\ gate = w.gate
    /\ res = [init |-> [t \in Threads |-> NoRecord],
              stop |-> [t \in Threads |-> NoRecord],
              run |-> [i \in Insts |-> NoRecord]]

NextO ==
    \/ \E t \in Threads : StartLock(t)
    \/ \E t \in Threads : StartCheck(t)
    \/ \E t \in Threads : StartInit(t)
    \/ \E t \in Threads : StartResult(t)

SpecO == InitO /\ [][NextO]_vars

\* ================================================================ claims
Alive == {i \in Insts : handle[i].st \in {"live", "dropping"}}
Unjoined == {i \in Insts : handler[i] \notin {"none", "joined"}}
OnlyOne == [kind |-> "Err", err |-> "OnlyOneInstanceAllowed", val |-> <<>>]
Returned(t) == pc'[t] = "idle" /\ pc[t] # "idle"

\* C1: at most one service instance exists at any time: never more than one
\* Daemon handle that has not been dropped, never more than one handler
\* thread spawned and not yet joined, and InitDaemon is only ever invoked
\* (pc s_init: about to be, s_result: just was) with the global slot empty.
C1_AtMostOneInstance ==
    /\ Cardinality(Alive) <= 1
    /\ Cardinality(Unjoined) <= 1
    /\ \A t \in Threads : pc[t] \in {"s_init", "s_result"} => ~IsSome(DAEMON.value)

\* a second start contends while the first instance runs
C1_Witness ==
    \E t \in Threads, i \in Insts :
        /\ pc[t] = "s_check"
        /\ DAEMON.value = Some(i)
        /\ handle[i].st = "live"
        /\ handler[i] = "running"

\* C2: a start that finds the global slot occupied returns
\* OnlyOneInstanceAllowed, issues no boundary call, spawns no thread and
\* leaves the slot and the running instance as they were; and while a handle
\* has not been dropped no start gets past the occupied-slot check.
C2_OccupiedStartFails ==
    /\ [][\A t \in Threads :
            (pc[t] = "s_check" /\ IsSome(DAEMON.value) /\ pc'[t] # pc[t]) =>
                /\ pc'[t] = "idle"
                /\ ret'[t] = OnlyOne
                /\ DAEMON'.value = DAEMON.value
                /\ ~DAEMON'.poisoned
                /\ UNCHANGED <<nInit, golib, handler, handle, res, gate>>]_vars
    /\ [](\A t \in Threads, i \in Insts :
            handle[i].st = "live" =>
                pc[t] \notin {"s_init", "s_result", "s_spawn", "s_store", "s_return"})

\* a start has returned OnlyOneInstanceAllowed while the instance runs on
C2_Witness ==
    \E t \in Threads, i \in Insts :
        /\ ret[t] = OnlyOne
        /\ handle[i].st = "live"
        /\ DAEMON.value = Some(i)
        /\ nInit = 1

\* the StartError variants whose field of the configuration is invalid
InvalidFields(config) ==
    {e \in {"PathIsNotValidUtf8", "PathContainsNullByte", "DurationIsTooLong",
            "AccessTokenContainsNullByte"} :
        \/ /\ e = "PathIsNotValidUtf8"
           /\ IsSome(config.temp_dir)
           /\ \E k \in 1..Len(config.temp_dir[1]) : config.temp_dir[1][k] = 255
        \/ /\ e = "PathContainsNullByte"
           /\ IsSome(config.temp_dir)
           /\ \E k \in 1..Len(config.temp_dir[1]) : config.temp_dir[1][k] = 0
        \/ /\ e = "DurationIsTooLong"
           /\ \E f \in {"provider_timeout", "global_timeout"} :
                /\ IsSome(config[f])
                /\ \E k \in 4..5 : config[f][1][k] # 0
        \/ /\ e = "AccessTokenContainsNullByte"
           /\ IsSome(config.access_token)
           /\ \E k \in 1..Len(config.access_token[1]) : config.access_token[1][k] = 0}

\* every error Daemon::start returns has its cause
StartFailureCause(t, err) ==
    /\ err = "MutexPoisoned" => DAEMON.poisoned
    /\ err = "OnlyOneInstanceAllowed" => Alive # {}
    /\ err = "Lassie" => IsSome(res.init[t].error)
    /\ err \notin {"MutexPoisoned", "OnlyOneInstanceAllowed", "Lassie"} =>
            err \in InvalidFields(frame[t].config)

\* C3: when a handle's drop returns, the slot is empty, the lock is free and
\* the handler thread of that handle's instance is joined; and a start fails
\* only for a poisoned lock, a handle whose drop has not returned, an invalid
\* configuration or an InitDaemon error, so start -> drop -> start succeeds.
C3_DropClearsSlot ==
    [][\A t \in Threads :
        /\ (Returned(t) /\ ret'[t].kind = "Dropped") =>
                /\ ~IsSome(DAEMON'.value)
                /\ DAEMON'.holder = 0
                /\ ~DAEMON'.poisoned
                /\ handler'[frame[t].self] = "joined"
                /\ Alive' = {}
        /\ (Returned(t) /\ ret'[t].kind = "Err") =>
                StartFailureCause(t, ret'[t].err)]_vars

\* the second start of start -> drop -> start has returned its handle
C3_Witness ==
    \E t \in Threads :
        /\ ret[t] = RetOk(2)
        /\ golib[1].init = "ok"
        /\ handle[1].st = "dead"
        /\ handler[1] = "joined"
        /\ handle[2].st = "live"

\* C4: a start from the Stopped state with a configuration that fails
\* translation returns the typed error of an invalid field before any
\* boundary call, spawns no thread, and leaves the slot empty and the lock
\* free and unpoisoned, so a later start is not hindered.
C4_InvalidConfigFailsEarly ==
    [][\A t \in Threads :
        (/\ pc[t] = "s_check"
         /\ ~IsSome(DAEMON.value)
         /\ InvalidFields(frame[t].config) # {}
         /\ pc'[t] # pc[t]) =>
            /\ pc'[t] = "idle"
            /\ ret'[t].kind = "Err"
            /\ ret'[t].err \in InvalidFields(frame[t].config)
            /\ DAEMON' = [holder |-> 0, poisoned |-> FALSE, value |-> None]
            /\ UNCHANGED <<nInit, golib, handler, handle, res, gate>>]_vars

\* a start has failed on its configuration, and a start that took the lock
\* after it is about to call InitDaemon
C4_Witness ==
    \E t, u \in Threads :
        /\ pc[t] = "idle"
        /\ ret[t].err = "AccessTokenContainsNullByte"
        /\ pc[u] = "s_init"


\* a start reads the error of the InitDaemon result it holds and leaves
InitErrorReturn(t) ==
    pc[t] = "s_result" /\ IsSome(res.init[t].error) /\ pc'[t] # pc[t]

\* what an InitDaemon error leaves behind, whatever the message
InitErrorLeavesStopped(t) ==
    /\ pc'[t] = "idle"
    /\ ret'[t].kind = "Err"
    /\ ret'[t].err = "Lassie"
    /\ DAEMON' = [holder |-> 0, poisoned |-> FALSE, value |-> None]
    /\ res'.init[t] = NoRecord
    /\ UNCHANGED <<nInit, golib, handler, handle>>

\* C5 as stated: on an InitDaemon error start returns StartError::Lassie
\* carrying the foreign message verbatim, byte for byte, spawns no thread,
\* never calls RunDaemon and leaves the slot empty.
C5_VerbatimMessage ==
    [][\A t \in Threads :
        InitErrorReturn(t) =>
            /\ InitErrorLeavesStopped(t)
            /\ ret'[t].val = res.init[t].error[1]]_vars

\* C5 as amended: the message start returns is the foreign message decoded
\* as UTF-8 with each ill-formed byte replaced by U+FFFD (so verbatim when
\* the message is valid UTF-8); no thread is spawned and RunDaemon is never
\* called for that InitDaemon call; the slot stays empty and the lock is
\* left free and unpoisoned.
C5_LossyMessage ==
    /\ [][\A t \in Threads :
            InitErrorReturn(t) =>
                LET msg == res.init[t].error[1]
                IN  /\ InitErrorLeavesStopped(t)
                    /\ Len(ret'[t].val) = Len(msg)
                    /\ \A k \in 1..Len(msg) :
                          ret'[t].val[k] = IF msg[k] <= 127 THEN msg[k] ELSE 65533]_vars
    /\ [](\A i \in Insts :
            golib[i].init = "err" =>
                handler[i] = "none" /\ handle[i].st = "none" /\ golib[i].runs = 0)

\* a start has failed on an InitDaemon error that is not UTF-8, and a start
\* that took the lock after it is about to call InitDaemon
C5_Witness ==
    \E t, u \in Threads :
        /\ pc[t] = "idle"
        /\ ret[t] = [kind |-> "Err", err |-> "Lassie", val |-> <<69, 65533>>]
        /\ golib[1].init = "err"
        /\ pc[u] = "s_init"

\* the records of kind k Rust holds
HeldRecords(k) ==
    IF k = "init" THEN {t \in Threads : res.init[t].st = "held"}
    ELSE IF k = "stop" THEN {t \in Threads : res.stop[t].st = "held"}
    ELSE {i \in Insts : res.run[i].st = "held"}

\* C6: every result record InitDaemon, RunDaemon or StopDaemon returned is
\* either still held by the call that received it or was released exactly
\* once (released + held = received, per kind); none is held once its call
\* has ended; and no error field is read after the release.
C6_ReleasedExactlyOnce ==
    /\ \A k \in RecordKinds :
          gate.freed[k] + Cardinality(HeldRecords(k)) = gate.got[k]
    /\ \A t \in Threads :
          /\ res.init[t].st = "held" =>
                pc[t] \in {"s_result", "s_spawn", "s_store", "s_return"}
          /\ res.stop[t].st = "held" => pc[t] \in {"d_result", "d_take", "d_join"}
    /\ \A i \in Insts :
          res.run[i].st = "held" => handler[i] = "returned"
    /\ ~gate.late

\* all exit paths taken: a start failed on an InitDaemon error, a start
\* succeeded, the handler thread exited, the drop aborted on a stop error
C6_Witness ==
    /\ gate.got = [init |-> 2, run |-> 1, stop |-> 1]
    /\ gate.freed = gate.got
    /\ \E i \in Insts : golib[i].init = "err"
    /\ \E t \in Threads : ret[t].kind = "Panic" /\ ret[t].err = "Cannot stop Lassie Daemon"

\* instance i has been torn down
TornDown(i) ==
    /\ golib[i].stops = 1
    /\ handler[i] = "joined"
    /\ handle[i].st = "dead"
    /\ DAEMON.value # Some(i)

\* C7: every successful start yields exactly one handle, one per successful
\* InitDaemon; and whenever a start is about to call or has called
\* InitDaemon, every earlier instance has been torn down: StopDaemon issued,
\* its handler thread joined, its handle gone and the slot cleared of it.
C7_TeardownBeforeNextStart ==
    /\ \A t \in Threads :
          ret[t].kind = "Ok" =>
              /\ golib[ret[t].val[1]].init = "ok"
              /\ handle[ret[t].val[1]].st # "none"
              /\ \A u \in Threads : ret[u] = ret[t] => u = t
    /\ \A i \in Insts : handle[i].st # "none" => golib[i].init = "ok"
    /\ \A i, j \in Insts :
          (i < j /\ golib[i].init = "ok" /\ golib[j].init # "none") => TornDown(i)
    /\ \A t \in Threads, i \in Insts :
          (pc[t] = "s_init" /\ golib[i].init = "ok") => TornDown(i)

\* a second instance runs after the first was torn down
C7_Witness ==
    /\ golib[1].init = "ok"
    /\ golib[2].init = "ok"
    /\ TornDown(1)
    /\ handle[2].st = "live"
    /\ handler[2] = "running"

ConfigErrors ==
    {"PathIsNotValidUtf8", "PathContainsNullByte", "DurationIsTooLong",
     "AccessTokenContainsNullByte"}

\* threads whose start, made with a valid configuration, has returned
StartedValid ==
    {t \in Threads :
        pc[t] = "idle" /\ ret[t].kind \in {"Ok", "Err"} /\ ret[t].err \notin ConfigErrors}

\* C8: as long as InitDaemon has reported no error and no handle has been
\* dropped, starts from any number of threads are serialized: every start
\* with a valid configuration returns a handle or OnlyOneInstanceAllowed,
\* exactly one handle was returned once any of them is back, and InitDaemon
\* and RunDaemon have each been invoked at most once, RunDaemon exactly once
\* as soon as the handler thread has got to it.
C8_ConcurrentStartsSerialized ==
    (/\ \A i \in Insts : golib[i].init # "err"
     /\ \A i \in Insts : handle[i].st \in {"none", "live"}) =>
        /\ nInit <= 1
        /\ gate.got["init"] <= 1
        /\ Cardinality({i \in Insts : handler[i] # "none"}) <= 1
        /\ \A i \in Insts : golib[i].runs <= 1
        /\ \A i \in Insts : handler[i] \notin {"none", "spawned"} => golib[i].runs = 1
        /\ \A t \in StartedValid : ret[t].kind = "Ok" \/ ret[t] = OnlyOne
        /\ StartedValid # {} =>
              /\ nInit = 1
              /\ Cardinality({i \in Insts : handle[i].st = "live"}) = 1
              /\ Cardinality({t \in StartedValid : ret[t].kind = "Ok"}) <= 1

\* every thread is back from its start: one holds the handle, every other
\* got OnlyOneInstanceAllowed, and RunDaemon is running
C8_Witness ==
    /\ StartedValid = Threads
    /\ Cardinality({t \in Threads : ret[t].kind = "Ok"}) = 1
    /\ \A t \in Threads : ret[t].kind # "Ok" => ret[t] = OnlyOne
    /\ \A i \in Insts : handle[i].st \in {"none", "live"}
    /\ nInit = 1
    /\ handler[1] = "running"

\* a drop has aborted on a StopDaemon error
StopAborted ==
    \E t \in Threads : ret[t].kind = "Panic" /\ ret[t].err = "Cannot stop Lassie Daemon"

\* C9 as stated: after a drop has aborted on a StopDaemon error, a handler
\* thread not yet joined is still in the slot (the slot is emptied only once
\* the join is done) and that slot entry belongs to a handle that has not
\* been dropped: no half-registered instance is left.
C9_NoHalfRegisteredInstance ==
    StopAborted =>
        \A i \in Unjoined : DAEMON.value = Some(i) /\ handle[i].st \in {"live", "dropping"}

\* C10: a drop that aborts on a StopDaemon error poisons the lock; once the
\* lock is poisoned it stays poisoned, the slot never changes, InitDaemon
\* and StopDaemon are never called again, no thread is spawned, no handle is
\* created, and every call that returns is a start returning MutexPoisoned
\* or a drop panicking on the poisoned lock.
C10_PoisonIsForever ==
    /\ [](StopAborted => DAEMON.poisoned)
    /\ [][DAEMON.poisoned =>
            /\ DAEMON'.poisoned
            /\ DAEMON'.value = DAEMON.value
            /\ DAEMON'.holder = 0
            /\ nInit' = nInit
            /\ gate'.got["init"] = gate.got["init"]
            /\ gate'.got["stop"] = gate.got["stop"]
            /\ \A i \in Insts : golib'[i].stops = golib[i].stops
            /\ \A i \in Insts : handler[i] = "none" => handler'[i] = "none"
            /\ \A i \in Insts : handle[i].st = "none" => handle'[i].st = "none"
            /\ \A t \in Threads :
                  Returned(t) =>
                      \/ ret'[t] = [kind |-> "Err", err |-> "MutexPoisoned", val |-> <<>>]
                      \/ /\ ret'[t].kind = "Panic"
                         /\ ret'[t].err = "global daemon mutex was poisoned"]_vars

\* the lock is poisoned, the slot still occupied, and a later start has
\* returned MutexPoisoned
C10_Witness ==
    /\ DAEMON.poisoned
    /\ IsSome(DAEMON.value)
    /\ \E t \in Threads : ret[t].err = "MutexPoisoned"

\* C11: a run-loop termination is never surfaced. If RunDaemon returns, with
\* or without an error, before the handle is dropped, the handle stays as
\* start returned it, the slot stays occupied by the instance, a later start
\* that reaches the check returns OnlyOneInstanceAllowed, and the drop of the
\* handle still issues StopDaemon, joins the exited thread and clears the slot.
C11_RunExitNotSurfaced ==
    /\ [](\A i \in Insts :
            (handle[i].st = "live" /\ handler[i] \in {"returned", "exited"}) =>
                /\ DAEMON.value = Some(i)
                /\ ~DAEMON.poisoned
                /\ \A t \in Threads :
                     pc[t] \notin {"s_init", "s_result", "s_spawn", "s_store",
                                   "s_return"})
    /\ [][\A t \in Threads, i \in Insts :
            (/\ handle[i].st = "live"
             /\ handler[i] \in {"returned", "exited"}
             /\ pc[t] = "s_check"
             /\ pc'[t] # pc[t]) => ret'[t] = OnlyOne]_vars
    /\ [][\A t \in Threads :
            (frame[t].ran_out /\ pc[t] \in DropPcs /\ pc'[t] = "idle") =>
                /\ ret'[t] = RetDropped
                /\ golib'[frame[t].self].stops = 1
                /\ handler'[frame[t].self] = "joined"
                /\ ~IsSome(DAEMON'.value)]_vars

\* an i64 nanosecond count read back as a u128
Widen(n, len) == [k \in 1..len |-> IF k <= Len(n) THEN n[k] ELSE 0]

\* C12: the optional numeric fields of an accepted configuration are
\* translated without loss: max_blocks unset becomes 0 and k > 0 stays k; an
\* unset provider or global timeout becomes 0 and a present one becomes
\* exactly its nanosecond count, each in its own field; the port is copied.
C12_NumericFieldsTranslated ==
    \A t \in Threads :
        pc[t] = "s_init" =>
            LET config == frame[t].config
                go == frame[t].go
            IN  /\ config.max_blocks = None => go.max_blocks = 0
                /\ \A k \in 1..3 : config.max_blocks = Some(k) => go.max_blocks = k
                /\ config.provider_timeout = None =>
                        \A k \in 1..Len(go.provider_timeout) :
                            go.provider_timeout[k] = 0
                /\ config.global_timeout = None =>
                        \A k \in 1..Len(go.global_timeout) :
                            go.global_timeout[k] = 0
                /\ \A d \in Durations :
                     /\ config.provider_timeout = Some(d) =>
                            Widen(go.provider_timeout, Len(d)) = d
                     /\ config.global_timeout = Some(d) =>
                            Widen(go.global_timeout, Len(d)) = d
                /\ go.port = config.port

\* every numeric field set, the two timeouts different, the port the largest
C12_Witness ==
    \E t \in Threads :
        /\ pc[t] = "s_init"
        /\ frame[t].config.max_blocks = Some(3)
        /\ frame[t].config.provider_timeout = Some(ShortDuration)
        /\ frame[t].config.global_timeout = Some(MaxGoDuration)
        /\ frame[t].config.port = 65535
        /\ frame[t].go.max_blocks = 3
        /\ frame[t].go.port = 65535

\* a <= b for two counts of the same number of limbs
Leq(a, b) ==
    \/ a = b
    \/ \E k \in 1..Len(a) :
         a[k] < b[k] /\ \A j \in (k + 1)..Len(a) : a[j] = b[j]

PathErrors == {"PathIsNotValidUtf8", "PathContainsNullByte"}

\* C13: the duration conversion is exact up to the signed 64-bit limit: a
\* duration of n nanoseconds with n <= 2^63 - 1 converts to exactly n, and
\* one with n >= 2^63 fails with DurationIsTooLong carrying the original
\* duration; it never wraps or truncates.
C13_DurationConversionExact ==
    [][\A t \in Threads :
        (pc[t] = "s_check" /\ pc'[t] # "s_check") =>
            LET config == frame[t].config
                present == {d \in Durations :
                              \/ config.global_timeout = Some(d)
                              \/ config.provider_timeout = Some(d)}
                tooLong == {d \in present : ~Leq(d, MaxGoDuration)}
            IN  /\ pc'[t] = "s_init" =>
                    /\ tooLong = {}
                    /\ \A d \in present :
                         /\ config.global_timeout = Some(d) =>
                                Widen(frame'[t].go.global_timeout, Len(d)) = d
                         /\ config.provider_timeout = Some(d) =>
                                Widen(frame'[t].go.provider_timeout, Len(d)) = d
                /\ (tooLong # {} /\ InvalidFields(config) \cap PathErrors = {}) =>
                    /\ pc'[t] = "idle"
                    /\ ret'[t].kind = "Err"
                    /\ ret'[t].err = "DurationIsTooLong"
                /\ ret'[t].err = "DurationIsTooLong" => ret'[t].val \in tooLong]_vars

\* 2^63 ns was refused and handed back as it was given
C13_Witness ==
    \E t \in Threads :
        /\ pc[t] = "idle"
        /\ ret[t] = RetErr(Err("DurationIsTooLong", TooLongDuration))

\* C14: the handle reports what start established: its port is the port
\* InitDaemon assigned, not the configured one, and its access token is the
\* configuration's, unmodified, None staying None; neither changes for as
\* long as the handle lives.
C14_HandleReportsStartValues ==
    /\ [][\A t \in Threads :
            (pc[t] = "s_return" /\ pc'[t] = "idle") =>
                /\ ret'[t] = RetOk(frame[t].result)
                /\ handle'[frame[t].result].st = "live"
                /\ handle'[frame[t].result].port = res.init[t].port
                /\ handle'[frame[t].result].access_token
                        = frame[t].config.access_token]_vars
    /\ [][\A i \in Insts :
            (handle[i].st \in {"live", "dropping"}
                /\ handle'[i].st \in {"live", "dropping"}) =>
                /\ handle'[i].port = handle[i].port
                /\ handle'[i].access_token = handle[i].access_token]_vars

\* started with FullConfig, whose port is 1: the handle has port 2
C14_Witness ==
    \E i \in Insts :
        /\ handle[i].st = "live"
        /\ handle[i].port = 2
        /\ handle[i].access_token = FullConfig.access_token
        /\ handler[i] = "running"

\* where a call holds the guard
LockedPcs == (StartPcs \cup DropPcs) \ {"s_lock", "d_lock"}

\* C15 as claimed: the lock is released before the handler thread begins
\* RunDaemon, so RunDaemon is never executing while the start that spawned
\* its thread still holds the lock.
C15_RunOnlyAfterUnlock ==
    \A t \in Threads, i \in Insts :
        ~(/\ handler[i] = "running"
          /\ pc[t] \in StartPcs
          /\ frame[t].result = i
          /\ DAEMON.holder = t)

\* C15: the lock is held only across the start and stop transitions, never
\* across the service's lifetime: a thread holds it exactly while it is
\* inside start or drop past the lock call, and a start that has spawned the
\* handler thread goes on to store it, return and release the lock without
\* waiting for that thread, whether or not RunDaemon has begun.
C15_LockOnlyAcrossTransitions ==
    \A t \in Threads :
        /\ DAEMON.holder = t <=> pc[t] \in LockedPcs
        /\ pc[t] = "s_store" => ENABLED StartStore(t)
        /\ pc[t] = "s_return" => ENABLED StartReturn(t)

\* the start has returned, RunDaemon is executing, nobody holds the lock
C15_Witness ==
    \E i \in Insts :
        /\ handle[i].st = "live"
        /\ handler[i] = "running"
        /\ DAEMON.holder = 0
        /\ \A t \in Threads : pc[t] = "idle"

\* C16 as claimed: in every reachable state, the states inside start and
\* drop with the lock held included, the slot is occupied exactly when a
\* handler thread has been spawned and not yet joined.
C16_SlotIffUnjoinedEverywhere ==
    \A i \in Insts : DAEMON.value = Some(i) <=> i \in Unjoined

\* C16: the slot only ever holds a thread that is spawned and not yet
\* joined, and whenever the lock is free every such thread is in the slot.
\* With the lock held there are two windows in which a spawned, unjoined
\* thread is not in the slot: in start between the spawn and the store, and
\* in drop between take() and the end of the join.
C16_SlotIffUnjoinedWhenUnlocked ==
    \A i \in Insts :
        /\ DAEMON.value = Some(i) => i \in Unjoined
        /\ (i \in Unjoined /\ DAEMON.value # Some(i)) =>
                \E t \in Threads :
                    /\ DAEMON.holder = t
                    /\ \/ pc[t] = "s_store" /\ frame[t].result = i
                       \/ pc[t] = "d_join" /\ frame[t].self = i

\* the drop has emptied the slot and waits for the thread still in RunDaemon
C16_Witness ==
    \E t \in Threads :
        /\ pc[t] = "d_join"
        /\ handler[frame[t].self] = "running"
        /\ ~IsSome(DAEMON.value)

\* the panic of the assert! at lines 273-276
AssertFailed ==
    RetPanic("Daemon.drop() was called when no GoDaemon was running", <<>>)

\* C17: the assertion in Daemon::drop that the slot is occupied never
\* fails: a live handle's instance is in the slot, and whenever a drop has
\* acquired the unpoisoned lock the slot holds the handler thread of that
\* handle's instance, spawned and not yet joined.
C17_DropFindsItsInstance ==
    /\ \A i \in Insts : handle[i].st = "live" => DAEMON.value = Some(i)
    /\ \A t \in Threads :
        /\ ret[t] # AssertFailed
        /\ pc[t] \in {"d_stop", "d_result", "d_take"} =>
            /\ DAEMON.value = Some(frame[t].self)
            /\ frame[t].self \in Unjoined

\* a drop is at the assertion after a failed start and with the run loop
\* of its instance already ended
C17_Witness ==
    \E t \in Threads, j \in Insts :
        /\ pc[t] = "d_stop"
        /\ handler[frame[t].self] = "exited"
        /\ golib[j].init = "err"

\* C18: under fair scheduling, with RunDaemon returning once stop has been
\* requested, every drop of a handle gets to its StopDaemon call, and one
\* whose StopDaemon reports no error completes with the thread joined and
\* the slot empty. A drop returns only after RunDaemon has returned and the
\* thread has ended; while RunDaemon has not returned after a stop request
\* no start gets past the occupied-slot check.
C18_DropCompletes ==
    /\ \A t \in Threads : (pc[t] = "d_lock") ~> (pc[t] = "d_result")
    /\ \A t \in Threads, i \in Insts :
         (pc[t] = "d_take" /\ frame[t].self = i) ~>
            (/\ ret[t] = RetDropped
             /\ handle[i].st = "dead"
             /\ handler[i] = "joined"
             /\ ~IsSome(DAEMON.value))
    /\ [][\A t \in Threads :
            (pc[t] \in DropPcs /\ pc'[t] = "idle" /\ ret'[t] = RetDropped) =>
                handler[frame[t].self] = "exited"]_vars
    /\ [](\A t \in Threads, i \in Insts :
            (handler[i] \in {"spawned", "running"} /\ golib[i].stops > 0) =>
                pc[t] \notin {"s_init", "s_result", "s_spawn", "s_store",
                              "s_return"})

\* a drop waits in join() for RunDaemon to return, a start waits for the lock
C18_Witness ==
    \E t \in Threads, u \in Threads :
        /\ pc[t] = "d_join"
        /\ handler[frame[t].self] = "running"
        /\ golib[frame[t].self].stops = 1
        /\ pc[u] = "s_lock"

MutexPoisoned == [kind |-> "Err", err |-> "MutexPoisoned", val |-> <<>>]
PastCheck == {"s_init", "s_result", "s_spawn", "s_store", "s_return"}

\* C19 as claimed: a start that contends with a drop in progress waits until
\* the drop has finished and then sees the slot empty and proceeds to
\* InitDaemon; it never returns OnlyOneInstanceAllowed because of the
\* instance being torn down and never calls InitDaemon before that
\* instance's thread is joined.
C19_StartAfterDropProceeds ==
    [][\A t \in Threads :
        /\ (pc[t] = "s_lock" /\ frame[t].contends # 0 /\ pc'[t] # "s_lock") =>
                pc'[t] = "s_check" /\ ~IsSome(DAEMON'.value)
        /\ (pc[t] = "s_check" /\ frame[t].contends # 0 /\ pc'[t] # "s_check") =>
                /\ ret'[t] = OnlyOne => DAEMON.value # Some(frame[t].contends)
                /\ pc'[t] = "s_init" => handler[frame[t].contends] = "joined"]_vars

\* C19: a start called while a drop holds the lock waits at the lock for
\* as long as that drop holds it. When it gets the lock, either the drop
\* completed, and the instance torn down is out of the slot with its thread
\* joined, or the drop aborted, the lock is poisoned and the start returns
\* MutexPoisoned. It never returns OnlyOneInstanceAllowed because of that
\* instance and never reaches InitDaemon before that instance's thread is
\* joined.
C19_StartWaitsForTeardown ==
    /\ [](\A t \in Threads :
            (frame[t].contends # 0 /\ frame[t].contends = BeingTornDown) =>
                pc[t] = "s_lock")
    /\ [](\A t \in Threads :
            (frame[t].contends # 0 /\ pc[t] \in PastCheck) =>
                handler[frame[t].contends] = "joined")
    /\ [][\A t \in Threads :
        /\ (pc[t] = "s_lock" /\ frame[t].contends # 0 /\ pc'[t] # "s_lock") =>
                \/ /\ pc'[t] = "s_check"
                   /\ DAEMON.value # Some(frame[t].contends)
                   /\ handler[frame[t].contends] = "joined"
                   /\ handle[frame[t].contends].st = "dead"
                \/ /\ DAEMON.poisoned
                   /\ pc'[t] = "idle"
                   /\ ret'[t] = MutexPoisoned
        /\ (pc[t] = "s_check" /\ frame[t].contends # 0 /\ pc'[t] # "s_check") =>
                /\ ret'[t] = OnlyOne => DAEMON.value # Some(frame[t].contends)
                /\ pc'[t] = "s_init" => handler[frame[t].contends] = "joined"]_vars

\* a start that was called during a drop is about to call InitDaemon
C19_Witness ==
    \E t \in Threads :
        /\ pc[t] = "s_init"
        /\ frame[t].contends # 0
        /\ handler[frame[t].contends] = "joined"
        /\ golib[frame[t].contends].stops = 1

\* C20 as claimed: for every instance the handler thread's RunDaemon call
\* begins before StopDaemon is issued for that instance, in every
\* interleaving.
C20_RunBeginsBeforeStop ==
    \A i \in Insts : golib[i].stops > 0 => golib[i].runs > 0

\* C20: before StopDaemon is issued for an instance its InitDaemon has
\* succeeded and the thread that calls RunDaemon has been spawned, and once
\* the thread is joined its RunDaemon call has been made, once; but the call
\* may begin after StopDaemon when the handle is dropped before the spawned
\* thread is scheduled.
C20_SpawnedBeforeStop ==
    \A i \in Insts :
        /\ golib[i].stops > 0 => golib[i].init = "ok" /\ handler[i] # "none"
        /\ handler[i] = "joined" => golib[i].runs = 1 /\ golib[i].stops = 1
        /\ golib[i].runs > 0 <=> handler[i] \notin {"none", "spawned"}

\* StopDaemon has been issued and the handler thread has not run yet
C20_Witness ==
    \E i \in Insts :
        /\ golib[i].stops = 1
        /\ golib[i].runs = 0
        /\ handler[i] = "spawned"
        /\ handle[i].st = "dropping"

\* C21: the boundary calls follow a per-instance protocol. RunDaemon is
\* invoked exactly once for each InitDaemon call that reported no error, by
\* the thread spawned for it, and never after one that reported an error;
\* StopDaemon is invoked at most once per instance, only from the drop of its
\* handle and only for the instance the latest successful InitDaemon
\* created; InitDaemon precedes the RunDaemon and StopDaemon of its instance.
C21_BoundaryProtocol ==
    /\ [](\A i \in Insts :
            /\ golib[i].runs <= 1
            /\ golib[i].stops <= 1
            /\ golib[i].runs = 1 <=> handler[i] \notin {"none", "spawned"}
            /\ golib[i].init # "ok" =>
                    /\ golib[i].runs = 0
                    /\ golib[i].stops = 0
                    /\ handler[i] = "none"
                    /\ handle[i].st = "none"
            /\ handler[i] = "spawned" => GoCurrent = i
            /\ golib[i].stops = 1 =>
                    /\ handle[i].st \in {"dropping", "dead"}
                    /\ handle[i].st = "dropping" =>
                            \E t \in Threads :
                                /\ pc[t] \in {"d_result", "d_take", "d_join"}
                                /\ frame[t].self = i)
    /\ [](\A t \in Threads :
            pc[t] = "d_stop" =>
                /\ GoCurrent = frame[t].self
                /\ golib[frame[t].self].stops = 0)
    /\ \A i \in Insts : (golib[i].init = "ok") ~> (golib[i].runs = 1)

\* a failed InitDaemon, then an instance that was run and stopped once
C21_Witness ==
    \E i \in Insts, j \in Insts :
        /\ golib[i] = [NoGo EXCEPT !.init = "err"]
        /\ golib[j] = [init |-> "ok", runs |-> 1, stops |-> 1]
        /\ handler[j] = "joined"

\* an optional duration that does not fit the Go side's signed 64 bits
Overflows(o) == IsSome(o) /\ ~Leq(Unwrap(o), MaxGoDuration)

\* C22: start checks in a fixed order and reports only the first failing
\* check: poisoned lock, occupied slot, temp_dir not UTF-8, temp_dir with a
\* NUL, global_timeout overflow, provider_timeout overflow, access_token
\* with a NUL, then the InitDaemon error. So an invalid configuration with
\* an instance running yields OnlyOneInstanceAllowed, and a configuration
\* with several invalid fields always yields the same single error.
C22_FirstFailingCheckOnly ==
    [][\A t \in Threads :
        LET config == frame[t].config
            invalid == InvalidFields(config)
        IN
        /\ (pc[t] = "s_lock" /\ pc'[t] # "s_lock") =>
                IF DAEMON.poisoned
                    THEN pc'[t] = "idle" /\ ret'[t] = MutexPoisoned
                    ELSE pc'[t] = "s_check"
        /\ (pc[t] = "s_check" /\ pc'[t] # "s_check") =>
                IF IsSome(DAEMON.value)
                    THEN pc'[t] = "idle" /\ ret'[t] = OnlyOne
                ELSE IF "PathIsNotValidUtf8" \in invalid
                    THEN ret'[t] = RetErr(Err("PathIsNotValidUtf8",
                                              Unwrap(config.temp_dir)))
                ELSE IF "PathContainsNullByte" \in invalid
                    THEN ret'[t] = RetErr(Err("PathContainsNullByte",
                                              Unwrap(config.temp_dir)))
                ELSE IF Overflows(config.global_timeout)
                    THEN ret'[t] = RetErr(Err("DurationIsTooLong",
                                              Unwrap(config.global_timeout)))
                ELSE IF Overflows(config.provider_timeout)
                    THEN ret'[t] = RetErr(Err("DurationIsTooLong",
                                              Unwrap(config.provider_timeout)))
                ELSE IF "AccessTokenContainsNullByte" \in invalid
                    THEN ret'[t] = RetErr(Err("AccessTokenContainsNullByte",
                                              Unwrap(config.access_token)))
                ELSE pc'[t] = "s_init"
        /\ (pc[t] # "idle" /\ pc'[t] = "idle" /\ ret'[t].err = "Lassie") =>
                /\ pc[t] = "s_result"
                /\ invalid = {}
                /\ ~DAEMON.poisoned]_vars

\* a temp_dir that is not UTF-8 and holds a NUL was refused as not UTF-8
C22_Witness ==
    \E t \in Threads :
        /\ pc[t] = "idle"
        /\ ret[t] = RetErr(Err("PathIsNotValidUtf8", <<255, 0>>))

====
